---- MODULE Spec2Model ----
(***************************************************************************)
(* A model of tilenol's Elasticsearch feature source and layer             *)
(* construction: CreateLayer, ElasticsearchSource.GetFeatures with its two *)
(* retrieval paths (doGetAggregates, doGetFeatures), hitToFeature and      *)
(* GetNested.                                                              *)
(***************************************************************************)
EXTENDS Integers, Sequences, FiniteSets, TLC

(***************************************************************************)
(* Bounds of the model.                                                    *)
(***************************************************************************)
\* the largest number of key/value entries in a generated nested value
MaxNodes == 3
\* the longest key path handed to GetNested
MaxPathLen == 3
\* the longest field string, counted in tokens (a key or a ".")
MaxFieldLen == 3
\* the largest number of entries in a document handed to hitToFeature alone
MaxDocNodes == 2
\* the number of documents that match the query of a scroll
MaxHits == 3
\* the number of buckets in a geohash grid aggregation result
MaxBuckets == 2

\* ScrollSize is the max number of documents per scroll page
ScrollSize == 250

(***************************************************************************)
(* Decoded JSON values (Go: interface{} holding nil, float64, string,      *)
(* []interface{} or map[string]interface{}).                               *)
(***************************************************************************)
Null == [t |-> "null"]
Num(n) == [t |-> "num", n |-> n]
Str(s) == [t |-> "str", s |-> s]
Arr(s) == [t |-> "arr", s |-> s]
Map(m) == [t |-> "map", m |-> m]

IsMap(v) == v.t = "map"

EmptyObj == Map(<<>>)

\* the keys documents are built from
Keys == <<"a", "b">>

KeySet == {Keys[i] : i \in 1..Len(Keys)}

\* a well-formed GeoJSON point, as it sits in a document
PointObj == Map("type" :> Str("Point") @@ "coordinates" :> Arr(<<Num(1), Num(2)>>))

\* the values a document holds at its leaves
Atoms == {Null, Num(5), Arr(<<Num(5)>>), PointObj}

RECURSIVE ValuesUpTo(_)
RECURSIVE MapsOver(_, _)

\* the key/value mappings over the keys ks with at most n entries in all,
\* nested ones counted
MapsOver(ks, n) ==
    IF ks = <<>> \/ n = 0 THEN {<<>>}
    ELSE MapsOver(Tail(ks), n) \cup
         UNION {{(Head(ks) :> v) @@ rest :
                    v \in ValuesUpTo(i), rest \in MapsOver(Tail(ks), n - 1 - i)} :
                i \in 0..(n - 1)}

\* the nested values with at most n entries
ValuesUpTo(n) == Atoms \cup {Map(m) : m \in MapsOver(Keys, n)}

Values == ValuesUpTo(MaxNodes)

\* key paths, as strings.Split produces them
PathsUpTo(n) == UNION {[1..k -> KeySet] : k \in 0..n}

Paths == PathsUpTo(MaxPathLen)

(***************************************************************************)
(* GetNested: traverse a path of keys in a nested JSON object.             *)
(***************************************************************************)
RECURSIVE GetNested(_, _)

NotFound == [val |-> Null, found |-> FALSE]

\* a lookup that takes the value for a mapping without looking at its type
GetNestedUntyped(something, keyParts) ==
    IF Len(keyParts) = 0 THEN [val |-> something, found |-> TRUE]
    ELSE IF something # Null /\ IsMap(something) /\ keyParts[1] \in DOMAIN something.m
         THEN GetNested(something.m[keyParts[1]], Tail(keyParts))
         ELSE IF something # Null /\ ~IsMap(something)
              THEN [val |-> something, found |-> TRUE]
              ELSE NotFound

GetNested(something, keyParts) ==
    IF Len(keyParts) = 0 THEN [val |-> something, found |-> TRUE]
    ELSE IF something # Null /\ IsMap(something) /\ keyParts[1] \in DOMAIN something.m
         THEN GetNested(something.m[keyParts[1]], Tail(keyParts))
         ELSE NotFound

(***************************************************************************)
(* Field names. A field name is a Go string; it is kept as the sequence of *)
(* its tokens, a token being a "." or a maximal run of other characters    *)
(* (a key), so that strings.Split(s, ".") is computed and not assumed.     *)
(***************************************************************************)
Dot == "."

IsFieldString(s) ==
    \A i \in 1..(Len(s) - 1) : s[i] = Dot \/ s[i + 1] = Dot

FieldStringsUpTo(n) ==
    {s \in UNION {[1..k -> KeySet \cup {Dot}] : k \in 0..n} : IsFieldString(s)}

FieldStrings == FieldStringsUpTo(MaxFieldLen)

RECURSIVE Split(_)

\* strings.Split(s, "."): the empty string splits into one empty part
Split(s) ==
    IF s = <<>> THEN <<"">>
    ELSE IF Head(s) = Dot THEN <<"">> \o Split(Tail(s))
         ELSE LET rest == Split(Tail(s))
              IN  <<Head(s) \o rest[1]>> \o Tail(rest)

Front(s) == SubSeq(s, 1, Len(s) - 1)

(***************************************************************************)
(* hitToFeature                                                            *)
(***************************************************************************)
\* json.Unmarshal(*hit.Source, &source) into a map[string]interface{}:
\* an object decodes, null leaves the map nil (it reads as an empty one),
\* anything else is an error
UnmarshalSource(raw) ==
    IF IsMap(raw) THEN [ok |-> TRUE, source |-> raw]
    ELSE IF raw = Null THEN [ok |-> TRUE, source |-> EmptyObj]
         ELSE [ok |-> FALSE, source |-> EmptyObj]

RECURSIVE DeleteAt(_, _, _)

\* a document that keeps the entry it was asked to delete
DeleteAtKeep(source, parentPath, key) == source

\* delete(parentMap, lastPart), where parentMap is the mapping reached from
\* source by parentPath; Go maps are references, so source sees the deletion
DeleteAt(source, parentPath, key) ==
    IF parentPath = <<>>
    THEN Map([k \in DOMAIN source.m \ {key} |-> source.m[k]])
    ELSE Map([k \in DOMAIN source.m |->
                 IF k = parentPath[1]
                 THEN DeleteAt(source.m[k], Tail(parentPath), key)
                 ELSE source.m[k]])

IsCoordinates(v) ==
    /\ v.t = "arr"
    /\ Len(v.s) >= 2
    /\ \A i \in 1..Len(v.s) : v.s[i].t = "num"

\* geojson.UnmarshalGeometry(json.Marshal(geometry))
UnmarshalGeometry(geometry) ==
    IF /\ IsMap(geometry)
       /\ {"type", "coordinates"} \subseteq DOMAIN geometry.m
       /\ geometry.m["type"] = Str("Point")
       /\ IsCoordinates(geometry.m["coordinates"])
    THEN [ok |-> TRUE,
          geom |-> [Type |-> "Point",
                    Coordinates |-> [i \in 1..Len(geometry.m["coordinates"].s) |->
                                        geometry.m["coordinates"].s[i].n]]]
    ELSE [ok |-> FALSE, geom |-> [Type |-> "nil"]]

NoFeature == [ID |-> "", Geometry |-> [Type |-> "nil"], Properties |-> <<>>]

ErrUnmarshal == "json: cannot unmarshal into Go value of type map[string]interface {}"
ErrGeometryNotFound == "Couldn't find geometry at field"
PanicTypeAssertion == "interface conversion: interface {} is not map[string]interface {}"
PanicNilDereference == "invalid memory address or nil pointer dereference"

Returned(feat) == [kind |-> "ok", feat |-> feat, err |-> ""]
Failed(err) == [kind |-> "err", feat |-> NoFeature, err |-> err]
Panicked(why) == [kind |-> "panic", feat |-> NoFeature, err |-> why]

\* the properties of a feature: one per source field that resolves in the
\* document, and always "id"
MappedProperties(e, source, id) ==
    LET resolved == {prop \in DOMAIN e.SourceFields :
                        GetNested(source, Split(e.SourceFields[prop])).found}
    IN  [prop \in resolved \cup {"id"} |->
            IF prop = "id" THEN Str(id)
            ELSE GetNested(source, Split(e.SourceFields[prop])).val]

\* hitToFeature(hit) on the source e. The errors of json.Marshal and of
\* geojson.UnmarshalGeometry are discarded at lines 196-197; what
\* geom.Geometry() does with the result of a failed decode is the geojson
\* package's affair: nilGeometry is "panic" when it dereferences the nil
\* result and "nil" when it hands back no geometry
hitToFeature(e, hit, nilGeometry) ==
    LET id == hit.Id
        um == UnmarshalSource(hit.Source)
        source == um.source
        geometryFieldParts == Split(e.GeometryField)
        numParts == Len(geometryFieldParts)
        lastPart == geometryFieldParts[numParts]
        nested == GetNested(source, Front(geometryFieldParts))
        parentMap == nested.val
        geometry == IF lastPart \in DOMAIN parentMap.m
                    THEN parentMap.m[lastPart] ELSE Null
        stripped == DeleteAt(source, Front(geometryFieldParts), lastPart)
        decoded == UnmarshalGeometry(geometry)
    IN  IF ~um.ok THEN Failed(ErrUnmarshal)
        ELSE IF ~nested.found THEN Failed(ErrGeometryNotFound)
        ELSE IF ~IsMap(parentMap) THEN Panicked(PanicTypeAssertion)
        ELSE IF ~decoded.ok /\ nilGeometry = "panic"
             THEN Panicked(PanicNilDereference)
        ELSE Returned([ID |-> id,
                       Geometry |-> decoded.geom,
                       Properties |-> MappedProperties(e, stripped, id)])

\* a nil Aggs map
NoAggs == [nil |-> TRUE, m |-> <<>>]

\* the configurations a source is asked to map one hit under: every
\* geometry field, with no source field or with one
MapperSources ==
    {[GeometryField |-> g, SourceFields |-> sf, Aggs |-> NoAggs] :
        g \in FieldStrings,
        sf \in {<<>>} \cup {("p" :> f) : f \in FieldStrings}}

(***************************************************************************)
(* Layer construction                                                      *)
(***************************************************************************)
MultipleSourcesErr == "Layers can only support a single backend source"
NoSourcesErr == "Layers must have a single backend source configured"
ErrInvalidSourceConfig == "Invalid layer source config for layer"

NilConfig == [nil |-> TRUE]
NilSource == [kind |-> "nil"]
NilLayer == [nil |-> TRUE]

\* a geohash grid configuration: no aggs key, an empty one, one metric, two
AggsConfigs ==
    {NoAggs,
     [nil |-> FALSE, m |-> <<>>],
     [nil |-> FALSE, m |-> ("pop" :> "population")],
     [nil |-> FALSE, m |-> ("pop" :> "population" @@ "den" :> "density")]}

\* the elasticsearch sections a layer is configured with
ElasticsearchConfigs ==
    {[nil |-> FALSE, Index |-> "places", GeometryField |-> g,
      SourceFields |-> sf, Aggs |-> aggs] :
        g \in {<<"a">>, <<"a", Dot, "b">>},
        sf \in {<<>>, ("p" :> <<"a">>)},
        aggs \in AggsConfigs}

PostGISConfigs == {[nil |-> FALSE, Table |-> "places"]}

LayerConfigs ==
    {[Name |-> "places", Description |-> "", Minzoom |-> 0, Maxzoom |-> 14,
      Source |-> [Elasticsearch |-> es, PostGIS |-> pg]] :
        es \in {NilConfig} \cup ElasticsearchConfigs,
        pg \in {NilConfig} \cup PostGISConfigs}

\* NewElasticsearchSource(config); clientErr is the error of
\* elastic.NewClient, "" when it connects
NewElasticsearchSource(config, clientErr) ==
    IF clientErr # ""
    THEN [source |-> NilSource, err |-> clientErr]
    ELSE [source |-> [kind |-> "elasticsearch",
                      Index |-> config.Index,
                      GeometryField |-> config.GeometryField,
                      SourceFields |-> config.SourceFields,
                      Aggs |-> config.Aggs],
          err |-> ""]

\* NewPostGISSource(config): a source of the other backend, or an error
NewPostGISSource(config, connErr) ==
    IF connErr # ""
    THEN [source |-> NilSource, err |-> connErr]
    ELSE [source |-> [kind |-> "postgis", Table |-> config.Table], err |-> ""]

\* a layer construction that takes the first backend configured
CreateLayerFirstConfigured(layerConfig, clientErr, connErr) ==
    LET es == layerConfig.Source.Elasticsearch
        pg == layerConfig.Source.PostGIS
        new == IF ~es.nil THEN NewElasticsearchSource(es, clientErr)
               ELSE NewPostGISSource(pg, connErr)
    IN  IF es.nil /\ pg.nil
        THEN [layer |-> NilLayer, err |-> NoSourcesErr, constructed |-> {}]
        ELSE [layer |-> IF new.err # "" THEN NilLayer
                        ELSE [nil |-> FALSE, Name |-> layerConfig.Name,
                              Description |-> layerConfig.Description,
                              Minzoom |-> layerConfig.Minzoom,
                              Maxzoom |-> layerConfig.Maxzoom,
                              Source |-> new.source],
              err |-> new.err,
              constructed |-> {IF ~es.nil THEN "elasticsearch" ELSE "postgis"}]

\* CreateLayer(layerConfig): the layer, the error, and the backends whose
\* constructor was called
CreateLayer(layerConfig, clientErr, connErr) ==
    LET es == layerConfig.Source.Elasticsearch
        pg == layerConfig.Source.PostGIS
        layer(source) == [nil |-> FALSE, Name |-> layerConfig.Name,
                          Description |-> layerConfig.Description,
                          Minzoom |-> layerConfig.Minzoom,
                          Maxzoom |-> layerConfig.Maxzoom,
                          Source |-> source]
    IN  IF ~es.nil /\ ~pg.nil
        THEN [layer |-> NilLayer, err |-> MultipleSourcesErr, constructed |-> {}]
        ELSE IF es.nil /\ pg.nil
        THEN [layer |-> NilLayer, err |-> NoSourcesErr, constructed |-> {}]
        ELSE IF ~es.nil
        THEN LET new == NewElasticsearchSource(es, clientErr)
             IN  IF new.err # ""
                 THEN [layer |-> NilLayer, err |-> new.err,
                       constructed |-> {"elasticsearch"}]
                 ELSE [layer |-> layer(new.source), err |-> "",
                       constructed |-> {"elasticsearch"}]
        ELSE IF ~pg.nil
        THEN LET new == NewPostGISSource(pg, connErr)
             IN  IF new.err # ""
                 THEN [layer |-> NilLayer, err |-> new.err,
                       constructed |-> {"postgis"}]
                 ELSE [layer |-> layer(new.source), err |-> "",
                       constructed |-> {"postgis"}]
        ELSE [layer |-> NilLayer, err |-> ErrInvalidSourceConfig, constructed |-> {}]

(***************************************************************************)
(* What a retrieval returns: a collection and no error, an error and no    *)
(* collection, or a panic that unwinds the call.                           *)
(***************************************************************************)
NoReturn == [kind |-> "none", nilFc |-> TRUE, fc |-> <<>>, err |-> ""]
ReturnFc(fc) == [kind |-> "ok", nilFc |-> FALSE, fc |-> fc, err |-> ""]
ReturnErr(err) == [kind |-> "err", nilFc |-> TRUE, fc |-> <<>>, err |-> err]
Panic(why) == [kind |-> "panic", nilFc |-> TRUE, fc |-> <<>>, err |-> why]

(***************************************************************************)
(* GetFeatures: the aggregate query when e.Aggs is not nil, the hit query  *)
(* when it is.                                                             *)
(***************************************************************************)
GetFeaturesPath(e) == IF ~e.Aggs.nil THEN "aggregate" ELSE "hit"

(***************************************************************************)
(* doGetAggregates                                                         *)
(***************************************************************************)
NilFloat == [nil |-> TRUE, v |-> 0]
Float(x) == [nil |-> FALSE, v |-> x]

\* the extended statistics of one metric in one cell: Avg and Sum are
\* *float64, and Avg is null for a cell none of whose documents has the field
StatsResults ==
    {[Avg |-> Float(7), Sum |-> Float(35), Count |-> 5],
     [Avg |-> NilFloat, Sum |-> Float(0), Count |-> 0]}

MetricNames == {"pop", "den"}

CellKeys == {"9q8y", "dr5r", "u4pr"}

Buckets ==
    {[Key |-> k, Aggregations |-> aggs] :
        k \in CellKeys,
        aggs \in UNION {[names -> StatsResults] : names \in SUBSET MetricNames}}

\* a grid aggregation lists each cell once
BucketSeqs ==
    {bs \in UNION {[1..n -> Buckets] : n \in 0..MaxBuckets} :
        \A i, j \in 1..Len(bs) : bs[i].Key = bs[j].Key => i = j}

ErrQuery == "elastic: Error 500 (Internal Server Error)"

\* what e.ES.Search(...).Do(ctx) answers
SearchResults ==
    {[err |-> ErrQuery, found |-> FALSE, Buckets |-> <<>>],
     [err |-> "", found |-> FALSE, Buckets |-> <<>>]}
    \cup {[err |-> "", found |-> TRUE, Buckets |-> bs] : bs \in BucketSeqs}

\* the center of the cell's bounding box
CellCenter(key) == [Type |-> "Point", CenterOf |-> key]

\* the metrics of the bucket whose Avg or Sum cannot be dereferenced
NilStats(e, bucket) ==
    {aggName \in DOMAIN e.Aggs.m \cap DOMAIN bucket.Aggregations :
        \/ bucket.Aggregations[aggName].Avg.nil
        \/ bucket.Aggregations[aggName].Sum.nil}

\* the properties lines 132-139 set on the feature of a bucket
StatsProperties(e, bucket) ==
    LET present == DOMAIN e.Aggs.m \cap DOMAIN bucket.Aggregations
        keys == {aggName \o suffix :
                    aggName \in present, suffix \in {":avg", ":sum", ":count"}}
        statsOf(key) ==
            LET aggName == CHOOSE n \in present :
                               key \in {n \o ":avg", n \o ":sum", n \o ":count"}
                statsAgg == bucket.Aggregations[aggName]
            IN  IF key = aggName \o ":avg" THEN statsAgg.Avg.v
                ELSE IF key = aggName \o ":sum" THEN statsAgg.Sum.v
                ELSE statsAgg.Count
    IN  [key \in keys |-> statsOf(key)]

BucketFeature(e, bucket) ==
    [ID |-> bucket.Key,
     Geometry |-> CellCenter(bucket.Key),
     Properties |-> StatsProperties(e, bucket)]

\* doGetAggregates(ctx) on the source e, given the answer of the search.
\* The context carries a tile and bucket keys are strings, as the grid
\* aggregation gives them, so the assertions of lines 105, 127 and 131 hold.
\* A nil Avg or Sum panics at lines 135-136, whichever bucket holds it.
doGetAggregates(e, results) ==
    IF results.err # "" THEN ReturnErr(results.err)
    ELSE IF ~results.found THEN ReturnFc(<<>>)
    ELSE IF \E i \in 1..Len(results.Buckets) : NilStats(e, results.Buckets[i]) # {}
         THEN Panic(PanicNilDereference)
    ELSE ReturnFc([i \in 1..Len(results.Buckets) |->
                      BucketFeature(e, results.Buckets[i])])

(***************************************************************************)
(* doGetFeatures                                                           *)
(***************************************************************************)
EOF == "EOF"
ErrCanceled == "context canceled"
ErrDeadlineExceeded == "context deadline exceeded"

\* the documents the index holds
HitSources ==
    {Map("a" :> PointObj),
     Map("a" :> Map("b" :> PointObj @@ "a" :> Num(5))),
     Map("a" :> Num(5)),
     Map("b" :> PointObj)}

\* the pages a scroll may deliver after n hits: at least one hit, at most
\* ScrollSize and no more than still match, ids in order of delivery
Pages(n) ==
    {[i \in 1..Len(srcs) |-> [Id |-> "h" \o ToString(n + i), Source |-> srcs[i]]] :
        srcs \in UNION {[1..j -> HitSources] :
                           j \in 1..(IF MaxHits - n < ScrollSize
                                     THEN MaxHits - n ELSE ScrollSize)}}

RECURSIVE MapHits(_, _, _, _)

\* lines 165-171: map the hits of a page in order, stop at the first failure
MapHits(e, fc, hits, nilGeometry) ==
    IF hits = <<>> THEN [kind |-> "ok", fc |-> fc, err |-> ""]
    ELSE LET mapped == hitToFeature(e, Head(hits), nilGeometry)
         IN  IF mapped.kind # "ok"
             THEN [kind |-> mapped.kind, fc |-> fc, err |-> mapped.err]
             ELSE MapHits(e, Append(fc, mapped.feat), Tail(hits), nilGeometry)

\* a loop body that hands back what it has when a page fails
HandleScrollPartial(e, fc, results, nilGeometry) ==
    IF results.err = EOF THEN [next |-> "return", fc |-> fc, ret |-> ReturnFc(fc)]
    ELSE IF results.err # ""
    THEN [next |-> "return", fc |-> fc, ret |-> ReturnFc(fc)]
    ELSE LET page == MapHits(e, fc, results.Hits, nilGeometry)
         IN  IF page.kind = "ok"
             THEN [next |-> "continue", fc |-> page.fc, ret |-> NoReturn]
             ELSE [next |-> "return", fc |-> fc, ret |-> ReturnFc(fc)]

\* a loop body that puts each page in front of the earlier ones
HandleScrollPrepend(e, fc, results, nilGeometry) ==
    IF results.err = EOF THEN [next |-> "return", fc |-> fc, ret |-> ReturnFc(fc)]
    ELSE IF results.err # ""
    THEN [next |-> "return", fc |-> fc, ret |-> ReturnErr(results.err)]
    ELSE LET page == MapHits(e, <<>>, results.Hits, nilGeometry)
         IN  IF page.kind = "ok"
             THEN [next |-> "continue", fc |-> page.fc \o fc, ret |-> NoReturn]
             ELSE [next |-> "return", fc |-> fc,
                   ret |-> IF page.kind = "panic" THEN Panic(page.err)
                           ELSE ReturnErr(page.err)]

\* lines 158-171: what the loop body does with the answer of scroll.Do
HandleScroll(e, fc, results, nilGeometry) ==
    IF results.err = EOF THEN [next |-> "return", fc |-> fc, ret |-> ReturnFc(fc)]
    ELSE IF results.err # ""
    THEN [next |-> "return", fc |-> fc, ret |-> ReturnErr(results.err)]
    ELSE LET page == MapHits(e, fc, results.Hits, nilGeometry)
         IN  IF page.kind = "ok"
             THEN [next |-> "continue", fc |-> page.fc, ret |-> NoReturn]
             ELSE [next |-> "return", fc |-> fc,
                   ret |-> IF page.kind = "panic" THEN Panic(page.err)
                           ELSE ReturnErr(page.err)]

\* a return that runs no deferred call
RunNoDeferred(ctxs) == ctxs

\* the deferred scrollCancel calls of line 156, run when the function
\* returns or panics
RunDeferred(ctxs) == [i \in 1..Len(ctxs) |-> "released"]

\* scrollCancel() of line 172, on the sub-context of this iteration
ScrollCancel(ctxs) == [ctxs EXCEPT ![Len(ctxs)] = "released"]

(***************************************************************************)
(* The state.                                                              *)
(*   pc           where the program is: "start", "ready" (a layer with an  *)
(*                elasticsearch source is built), "loop" and "fetch" (in   *)
(*                doGetFeatures, before line 155 and before line 157),     *)
(*                "done"                                                   *)
(*   call         the last call of a utility function, with its result     *)
(*   nilGeometry  how geom.Geometry() takes the result of a failed decode  *)
(*   created      the call of CreateLayer, with its result                 *)
(*   mode         the path GetFeatures took                                *)
(*   ctx          the caller's context                                     *)
(*   fc           the collection doGetFeatures is filling                  *)
(*   scrollCtxs   the per-page sub-contexts created so far                 *)
(*   delivered    the hits scroll.Do has delivered so far, in order        *)
(*   fetches      the number of calls of scroll.Do                         *)
(*   failedAt     the call of scroll.Do that failed, 0 when none did       *)
(*   lastErr      the error of the last call of scroll.Do, "" when none    *)
(*   answer       what the backend answered to the aggregation search      *)
(*   ret          what GetFeatures returned                                *)
(***************************************************************************)
VARIABLES pc, call, nilGeometry, created, mode, ctx, fc, scrollCtxs,
          delivered, fetches, failedAt, lastErr, answer, ret

vars == <<pc, call, nilGeometry, created, mode, ctx, fc, scrollCtxs,
          delivered, fetches, failedAt, lastErr, answer, ret>>

retrieval == <<mode, ctx, fc, scrollCtxs, delivered, fetches, failedAt, lastErr,
               answer, ret>>

NoAnswer == [err |-> "", found |-> FALSE, Buckets |-> <<>>]

Init ==
    /\ pc = "start"
    /\ call = [op |-> "none"]
    /\ nilGeometry \in {"panic", "nil"}
    /\ created = [op |-> "none"]
    /\ mode = "none"
    /\ ctx = "active"
    /\ fc = <<>>
    /\ scrollCtxs = <<>>
    /\ delivered = <<>>
    /\ fetches = 0
    /\ failedAt = 0
    /\ lastErr = ""
    /\ answer = NoAnswer
    /\ ret = NoReturn

\* the source of the layer that was built
Source == created.out.layer.Source

CallGetNested ==
    /\ pc = "start"
    /\ \E v \in Values, p \in Paths :
          call' = [op |-> "GetNested", something |-> v, keyParts |-> p,
                   out |-> GetNested(v, p)]
    /\ pc' = "done"
    /\ UNCHANGED <<nilGeometry, created, retrieval>>

CallHitToFeature ==
    /\ pc = "start"
    /\ \E e \in MapperSources, raw \in ValuesUpTo(MaxDocNodes) :
          LET hit == [Id |-> "h1", Source |-> raw]
          IN  call' = [op |-> "hitToFeature", e |-> e, hit |-> hit,
                       out |-> hitToFeature(e, hit, nilGeometry)]
    /\ pc' = "done"
    /\ UNCHANGED <<nilGeometry, created, retrieval>>

ErrNoConnection == "no Elasticsearch node available"
ErrNoDatabase == "connection refused"

DoCreateLayer ==
    /\ pc = "start"
    /\ \E layerConfig \in LayerConfigs,
          clientErr \in {"", ErrNoConnection}, connErr \in {"", ErrNoDatabase} :
          LET out == CreateLayer(layerConfig, clientErr, connErr)
          IN  /\ created' = [op |-> "CreateLayer", layerConfig |-> layerConfig,
                             clientErr |-> clientErr, connErr |-> connErr,
                             out |-> out]
              /\ pc' = IF ~out.layer.nil /\ out.layer.Source.kind = "elasticsearch"
                       THEN "ready" ELSE "done"
    /\ UNCHANGED <<call, nilGeometry, retrieval>>

\* GetFeatures, lines 95-97: the aggregate query, answered in one search
GetAggregates ==
    /\ pc = "ready"
    /\ GetFeaturesPath(Source) = "aggregate"
    /\ mode' = "aggregate"
    /\ \E results \in SearchResults :
          /\ answer' = results
          /\ ret' = doGetAggregates(Source, results)
    /\ pc' = "done"
    /\ UNCHANGED <<call, nilGeometry, created, ctx, fc, scrollCtxs, delivered,
                   fetches, failedAt, lastErr>>

\* GetFeatures, lines 98-100, and doGetFeatures up to the loop
GetHits ==
    /\ pc = "ready"
    /\ GetFeaturesPath(Source) = "hit"
    /\ mode' = "hit"
    /\ fc' = <<>>
    /\ pc' = "loop"
    /\ UNCHANGED <<call, nilGeometry, created, ctx, scrollCtxs, delivered,
                   fetches, failedAt, lastErr, answer, ret>>

\* the caller cancels its context while doGetFeatures pages
CancelCtx ==
    /\ pc \in {"loop", "fetch"}
    /\ ctx = "active"
    /\ ctx' = "canceled"
    /\ UNCHANGED <<pc, call, nilGeometry, created, mode, fc, scrollCtxs,
                   delivered, fetches, failedAt, lastErr, answer, ret>>

\* lines 155-156: the sub-context of the next page and its deferred cancel
NewScrollCtx ==
    /\ pc = "loop"
    /\ scrollCtxs' = Append(scrollCtxs, "live")
    /\ pc' = "fetch"
    /\ UNCHANGED <<call, nilGeometry, created, mode, ctx, fc, delivered,
                   fetches, failedAt, lastErr, answer, ret>>

\* what scroll.Do(scrollCtx) answers: the error of a context that is done,
\* or else end of results, a failure, or the next page
ScrollAnswers ==
    IF ctx = "canceled"
    THEN {[err |-> ErrCanceled, Hits |-> <<>>]}
    ELSE {[err |-> x, Hits |-> <<>>] : x \in {EOF, ErrQuery, ErrDeadlineExceeded}}
         \cup {[err |-> "", Hits |-> hits] :
                 hits \in Pages(Len(delivered))}

\* lines 157-173: one fetch and what the loop body does with it
ScrollDo ==
    /\ pc = "fetch"
    /\ \E results \in ScrollAnswers :
          LET step == HandleScroll(Source, fc, results, nilGeometry)
          IN  /\ fetches' = fetches + 1
              /\ failedAt' = IF results.err \notin {"", EOF}
                             THEN fetches + 1 ELSE failedAt
              /\ lastErr' = results.err
              /\ delivered' = delivered \o results.Hits
              /\ fc' = step.fc
              /\ ret' = step.ret
              /\ IF step.next = "continue"
                 THEN /\ scrollCtxs' = ScrollCancel(scrollCtxs)
                      /\ pc' = "loop"
                 ELSE /\ scrollCtxs' = RunDeferred(scrollCtxs)
                      /\ pc' = "done"
    /\ UNCHANGED <<call, nilGeometry, created, mode, ctx, answer>>

Next ==
    \/ CallGetNested
    \/ CallHitToFeature
    \/ DoCreateLayer
    \/ GetAggregates
    \/ GetHits
    \/ CancelCtx
    \/ NewScrollCtx
    \/ ScrollDo

Spec == Init /\ [][Next]_vars

(***************************************************************************)
(* The properties.                                                         *)
(***************************************************************************)
RECURSIVE Reached(_, _)

\* the value reached by following the segments of p in turn from v, each
\* segment a key of the mapping reached so far
Reached(v, p) ==
    IF p = <<>> THEN [val |-> v, found |-> TRUE]
    ELSE LET r == Reached(v, Front(p))
             k == p[Len(p)]
         IN  IF r.found /\ r.val.t = "map" /\ k \in DOMAIN r.val.m
             THEN [val |-> r.val.m[k], found |-> TRUE]
             ELSE NotFound

\* the retrieval went down the raw path and has returned
HitsReturned == mode = "hit" /\ pc = "done"

\* C1: when the backend has delivered N documents that all map, over any
\* number of pages, and then signals end of results, doGetFeatures returns
\* no error and a collection of exactly N features, the i-th being the
\* mapping of the i-th document delivered.
C1_AllDeliveredInOrder ==
    (HitsReturned /\ lastErr = EOF) =>
        /\ ret.kind = "ok"
        /\ ~ret.nilFc
        /\ Len(ret.fc) = Len(delivered)
        /\ \A i \in 1..Len(delivered) :
              /\ ret.fc[i].ID = delivered[i].Id
              /\ ret.fc[i] = hitToFeature(Source, delivered[i], nilGeometry).feat

C1_Witness ==
    /\ HitsReturned
    /\ lastErr = EOF
    /\ fetches >= 3
    /\ Len(delivered) = MaxHits
    /\ ret.kind = "ok"

\* C2: when a call of scroll.Do fails with anything but end of results,
\* cancellation and deadline expiry included, no later call is made and
\* doGetFeatures returns the error and no collection, whatever was
\* accumulated from earlier pages.
C2_FetchErrorAborts ==
    failedAt # 0 =>
        /\ pc = "done"
        /\ fetches = failedAt
        /\ ret.kind = "err"
        /\ ret.nilFc
        /\ ret.err = lastErr
        /\ lastErr \in {ErrQuery, ErrCanceled, ErrDeadlineExceeded}

C2_Witness ==
    /\ failedAt >= 2
    /\ ctx = "canceled"
    /\ ret.err = ErrCanceled
    /\ Len(fc) >= 1

\* C3: every per-page sub-context is released when doGetFeatures has
\* returned, on every exit path, and every sub-context of an earlier page
\* is released before the next one is created.
C3_ScrollCtxsReleased ==
    /\ (mode = "hit" /\ pc \in {"loop", "done"}) =>
          \A i \in 1..Len(scrollCtxs) : scrollCtxs[i] = "released"
    /\ \A i \in 1..(Len(scrollCtxs) - 1) : scrollCtxs[i] = "released"

C3_Witness ==
    /\ HitsReturned
    /\ Len(scrollCtxs) >= 2
    /\ ret.kind = "err"
    /\ failedAt = 0
    /\ \A i \in 1..Len(scrollCtxs) : scrollCtxs[i] = "released"

\* the document is an object in which following the dotted geometry field
\* fails at some segment, the last one included
GeometryUnresolvable(e, hit) ==
    /\ IsMap(hit.Source)
    /\ ~Reached(hit.Source, Split(e.GeometryField)).found

\* C4: a document in which a segment of the geometry field path, the last
\* one included, is absent or sits under a value that is no mapping makes
\* hitToFeature fail with the field-not-found error, and makes the whole
\* retrieval return that error and no collection.
C4_MissingGeometryIsFieldNotFound ==
    /\ (call.op = "hitToFeature" /\ GeometryUnresolvable(call.e, call.hit)) =>
          call.out = Failed(ErrGeometryNotFound)
    /\ (HitsReturned /\ \E i \in 1..Len(delivered) :
                           GeometryUnresolvable(Source, delivered[i])) =>
          ret = ReturnErr(ErrGeometryNotFound)

\* the document is an object that holds, at the geometry field, a value that
\* does not decode as a geometry
GeometryUndecodable(e, hit) ==
    /\ IsMap(hit.Source)
    /\ Reached(hit.Source, Split(e.GeometryField)).found
    /\ ~UnmarshalGeometry(Reached(hit.Source, Split(e.GeometryField)).val).ok

\* C5: when the value at the geometry field does not decode as a geometry,
\* hitToFeature returns an error and no feature, and the retrieval is
\* aborted with an error.
C5_UndecodableGeometryIsError ==
    /\ (call.op = "hitToFeature" /\ GeometryUndecodable(call.e, call.hit)) =>
          call.out.kind = "err"
    /\ (HitsReturned /\ \E i \in 1..Len(delivered) :
                           GeometryUndecodable(Source, delivered[i])) =>
          ret.kind = "err"

\* the properties of feat hold nothing of the geometry field: a property
\* whose path is the geometry path is left out, and a property whose path
\* leads to a container above the geometry holds that container without the
\* geometry entry
GeometryStripped(e, feat) ==
    LET geometryPath == Split(e.GeometryField)
    IN  \A prop \in DOMAIN e.SourceFields \ {"id"} :
           LET path == Split(e.SourceFields[prop])
               below == SubSeq(geometryPath, Len(path) + 1, Len(geometryPath))
           IN  (/\ Len(path) <= Len(geometryPath)
                /\ path = SubSeq(geometryPath, 1, Len(path))) =>
                  IF below = <<>>
                  THEN prop \notin DOMAIN feat.Properties
                  ELSE prop \in DOMAIN feat.Properties =>
                          ~Reached(feat.Properties[prop], below).found

C7_AggregatePathIffAggsDeclared ==
    mode # "none" =>
        (mode = "aggregate" <=> Cardinality(DOMAIN Source.Aggs.m) >= 1)

\* the metrics configured that the cell has a result for
ResultsOf(e, bucket) == DOMAIN e.Aggs.m \cap DOMAIN bucket.Aggregations

\* the cells of the answer that have at least one aggregation result
RECURSIVE CellsWithResults(_, _)
CellsWithResults(e, buckets) ==
    IF buckets = <<>> THEN <<>>
    ELSE IF ResultsOf(e, Head(buckets)) # {}
         THEN <<Head(buckets)>> \o CellsWithResults(e, Tail(buckets))
         ELSE CellsWithResults(e, Tail(buckets))

\* C8: doGetAggregates returns one feature for each cell that has at least
\* one aggregation result, its id the key of the cell; for each configured
\* metric M the properties hold M:avg, M:sum and M:count with the values of
\* the cell when the cell has a result for M, and none of the three when
\* it has not.
C8_OneFeaturePerCell ==
    (mode = "aggregate" /\ answer.err = "" /\ answer.found) =>
        LET cells == CellsWithResults(Source, answer.Buckets)
        IN  /\ ret.kind = "ok"
            /\ Len(ret.fc) = Len(cells)
            /\ \A i \in 1..Len(cells) :
                  /\ ret.fc[i].ID = cells[i].Key
                  /\ \A M \in DOMAIN Source.Aggs.m :
                        LET props == ret.fc[i].Properties
                            three == {M \o ":avg", M \o ":sum", M \o ":count"}
                        IN  IF M \in DOMAIN cells[i].Aggregations
                            THEN /\ three \subseteq DOMAIN props
                                 /\ props[M \o ":avg"] = cells[i].Aggregations[M].Avg.v
                                 /\ props[M \o ":sum"] = cells[i].Aggregations[M].Sum.v
                                 /\ props[M \o ":count"] = cells[i].Aggregations[M].Count
                            ELSE three \cap DOMAIN props = {}

\* C9: CreateLayer fails with MultipleSourcesErr when both backends are
\* configured and with NoSourcesErr when none is, constructing no source;
\* with one configured it constructs that source and returns a layer that
\* holds it, or the error of the constructor and no layer.
C9_ExactlyOneSource ==
    created.op = "CreateLayer" =>
        LET es == created.layerConfig.Source.Elasticsearch
            pg == created.layerConfig.Source.PostGIS
            out == created.out
        IN  /\ (~es.nil /\ ~pg.nil) =>
                  /\ out.err = MultipleSourcesErr
                  /\ out.layer.nil
                  /\ out.constructed = {}
            /\ (es.nil /\ pg.nil) =>
                  /\ out.err = NoSourcesErr
                  /\ out.layer.nil
                  /\ out.constructed = {}
            /\ (~es.nil /\ pg.nil) =>
                  /\ out.constructed = {"elasticsearch"}
                  /\ IF created.clientErr = ""
                     THEN /\ out.err = ""
                          /\ ~out.layer.nil
                          /\ out.layer.Source.kind = "elasticsearch"
                          /\ out.layer.Source.GeometryField = es.GeometryField
                     ELSE out.err = created.clientErr /\ out.layer.nil
            /\ (es.nil /\ ~pg.nil) =>
                  /\ out.constructed = {"postgis"}
                  /\ IF created.connErr = ""
                     THEN /\ out.err = ""
                          /\ ~out.layer.nil
                          /\ out.layer.Source.kind = "postgis"
                     ELSE out.err = created.connErr /\ out.layer.nil
            /\ ~out.layer.nil =>
                  /\ out.err = ""
                  /\ out.layer.Source.kind \in {"elasticsearch", "postgis"}

C9_Witness ==
    /\ created.op = "CreateLayer"
    /\ ~created.layerConfig.Source.Elasticsearch.nil
    /\ ~created.layerConfig.Source.PostGIS.nil
    /\ created.out.err = MultipleSourcesErr
    /\ created.out.layer.nil

\* C10: GetNested returns the value reached and found when each segment of
\* the path in turn is a key of the mapping reached so far, the value itself
\* for the empty path, and not found as soon as a segment is absent or the
\* value reached is no mapping while segments remain.
C10_GetNested ==
    call.op = "GetNested" =>
        call.out = Reached(call.something, call.keyParts)

C10_Witness ==
    /\ call.op = "GetNested"
    /\ call.something = Map("a" :> Map("b" :> Map("a" :> Num(5))))
    /\ call.keyParts = <<"a", "b", "a">>
    /\ call.out = [val |-> Num(5), found |-> TRUE]

====
